---- MODULE Spec2Model ----
(***************************************************************************)
(* Model of manga-ebook-creator.py: the per-volume pipeline (existing      *)
(* artifact check, chapter resolution, page staging, cover fetch,          *)
(* duplicate removal, CBZ packaging, conversion, relocation) over a small  *)
(* file system.  File names are sequences of one-character strings and     *)
(* are compared, searched and formatted character by character as Python   *)
(* does.                                                                   *)
(***************************************************************************)
EXTENDS Integers, Sequences, FiniteSets, TLC

(***************************************************************************)
(* Characters and strings                                                  *)
(***************************************************************************)

\* The characters used by the model, in increasing code point order.
Alphabet ==
    << " ", "-", ".",
       "0", "1", "2", "3", "4", "5", "6", "7", "8", "9",
       "B", "C", "I", "T", "V", "Z", "[", "]",
       "a", "b", "c", "e", "g", "j", "l", "m", "n", "o", "p", "r", "t",
       "u", "v", "w", "x", "y", "z" >>

Ord == [ch \in {Alphabet[i] : i \in 1..Len(Alphabet)} |->
           CHOOSE i \in 1..Len(Alphabet) : Alphabet[i] = ch]

Digits == <<"0", "1", "2", "3", "4", "5", "6", "7", "8", "9">>

\* Python's str < str: first differing code point decides, a proper prefix
\* is smaller.
RECURSIVE StrLess(_, _)
StrLess(a, b) ==
    IF b = <<>> THEN FALSE
    ELSE IF a = <<>> THEN TRUE
    ELSE IF Head(a) = Head(b) THEN StrLess(Tail(a), Tail(b))
    ELSE Ord[Head(a)] < Ord[Head(b)]

\* str(n) for a natural number n.
RECURSIVE Str(_)
Str(n) ==
    IF n < 10 THEN <<Digits[n + 1]>>
    ELSE Str(n \div 10) \o <<Digits[(n % 10) + 1]>>

\* f'{n:0w}' for a natural number n: zero-padded to AT LEAST w characters.
RECURSIVE ZeroFill(_, _)
ZeroFill(s, w) == IF Len(s) >= w THEN s ELSE ZeroFill(<<"0">> \o s, w)

\* fault: the number is not padded
NoPad(n, w) == Str(n)

Pad(n, w) == ZeroFill(Str(n), w)

\* sub in s
Contains(sub, s) ==
    \E i \in 1..(Len(s) - Len(sub) + 1) : SubSeq(s, i, i + Len(sub) - 1) = sub

IsDigit(ch) == \E i \in 1..10 : Digits[i] = ch

DigitVal(ch) == (CHOOSE i \in 1..10 : Digits[i] = ch) - 1

\* int(s) succeeds on a non-empty string of decimal digits.
IsInt(s) == Len(s) > 0 /\ \A i \in 1..Len(s) : IsDigit(s[i])

RECURSIVE ParseInt(_)
ParseInt(s) ==
    IF Len(s) = 1 THEN DigitVal(s[1])
    ELSE 10 * ParseInt(SubSeq(s, 1, Len(s) - 1)) + DigitVal(s[Len(s)])

\* s.split(sep) for a one-character separator.
RECURSIVE Split(_, _)
Split(s, sep) ==
    IF \A i \in 1..Len(s) : s[i] # sep THEN <<s>>
    ELSE LET k == CHOOSE i \in 1..Len(s) :
                     s[i] = sep /\ \A j \in 1..(i - 1) : s[j] # sep
         IN <<SubSeq(s, 1, k - 1)>> \o Split(SubSeq(s, k + 1, Len(s)), sep)

Min2(x, y) == IF x <= y THEN x ELSE y

\* Levenshtein.distance(a, b): row-by-row dynamic programme.
RECURSIVE LevRow(_, _, _, _)
LevRow(prev, cur, ch, b) ==
    LET j == Len(cur) IN
    IF j = Len(b) + 1 THEN cur
    ELSE LevRow(prev,
                Append(cur, Min2(Min2(prev[j + 1] + 1, cur[j] + 1),
                                 prev[j] + (IF b[j] = ch THEN 0 ELSE 1))),
                ch, b)

RECURSIVE LevRows(_, _, _)
LevRows(prev, a, b) ==
    IF a = <<>> THEN prev
    ELSE LevRows(LevRow(prev, <<prev[1] + 1>>, Head(a), b), Tail(a), b)

Distance(a, b) == LevRows([j \in 1..(Len(b) + 1) |-> j - 1], a, b)[Len(b) + 1]

\* list.sort() on a list of strings (insertion into a sorted prefix).
RECURSIVE Insert(_, _)
Insert(x, sorted) ==
    IF sorted = <<>> THEN <<x>>
    ELSE IF StrLess(x, Head(sorted)) THEN <<x>> \o sorted
    ELSE <<Head(sorted)>> \o Insert(x, Tail(sorted))

RECURSIVE Sort(_)
Sort(lst) == IF lst = <<>> THEN <<>> ELSE Insert(Head(lst), Sort(Tail(lst)))

\* largest directory of which every listing order is considered
MaxPermuted == 4

RECURSIVE Orders(_)
Orders(S) ==
    IF S = {} THEN {<<>>}
    ELSE UNION {{<<x>> \o l : l \in Orders(S \ {x})} : x \in S}

RECURSIVE Increasing(_)
Increasing(S) ==
    IF S = {} THEN <<>>
    ELSE LET x == CHOOSE y \in S : \A z \in S \ {y} : StrLess(y, z)
         IN <<x>> \o Increasing(S \ {x})

Reverse(l) == [i \in 1..Len(l) |-> l[Len(l) + 1 - i]]

Rotations(l) == {SubSeq(l, i, Len(l)) \o SubSeq(l, 1, i - 1) : i \in 1..Len(l)}

\* The orders in which os.listdir or glob may enumerate the names S: any
\* order for a small directory, and for a larger one the rotations of the
\* increasing and of the decreasing order.
Listings(S) ==
    IF Cardinality(S) <= MaxPermuted THEN Orders(S)
    ELSE Rotations(Increasing(S)) \cup Rotations(Reverse(Increasing(S)))

Range(f) == {f[x] : x \in DOMAIN f}

(***************************************************************************)
(* Chapter resolution (lines 159-168)                                      *)
(***************************************************************************)

InitialScore == 999

\* candidatedirs = [cd for cd in chapterdirs if str(c) in cd]
RECURSIVE CandidateDirs(_, _)
CandidateDirs(c, dirs) ==
    IF dirs = <<>> THEN <<>>
    ELSE (IF Contains(Str(c), Head(dirs)) THEN <<Head(dirs)>> ELSE <<>>)
         \o CandidateDirs(c, Tail(dirs))

NoDir == <<>>

\* fault: a candidate at the same distance replaces the best one
CloserOrEqual(dist, score) == dist <= score

Closer(dist, score) == dist < score

\* the for loop over candidatedirs, carrying (score, chapterdir)
RECURSIVE BestDir(_, _, _, _)
BestDir(c, cands, score, chapterdir) ==
    IF cands = <<>> THEN chapterdir
    ELSE LET dist == Distance(Str(c), Head(cands)) IN
         IF Closer(dist, score)
         THEN BestDir(c, Tail(cands), dist, Head(cands))
         ELSE BestDir(c, Tail(cands), score, chapterdir)

\* fault: without candidate the first directory is taken
ResolveOrFirst(c, dirs) ==
    IF CandidateDirs(c, dirs) = <<>> /\ dirs # <<>> THEN Head(dirs)
    ELSE BestDir(c, CandidateDirs(c, dirs), InitialScore, NoDir)

\* chapterdir for chapter c, NoDir standing for None
ResolveChapter(c, dirs) == BestDir(c, CandidateDirs(c, dirs), InitialScore, NoDir)

(***************************************************************************)
(* Program constants and file names                                        *)
(***************************************************************************)

META_FILE == <<"m", "e", "t", "a", ".", "y", "m", "l">>

\* fault: a cover name that does not start with the zero chapter prefix
CoverJpg == <<"c", "o", "v", "e", "r", ".", "j", "p", "g">>

SCAN_COVER == <<"0", "0", "0", "0", ".", "j", "p", "g">>

SCAN_EXTENSIONS ==
    << <<".", "j", "p", "g">>, <<".", "j", "p", "e", "g">>,
       <<".", "p", "n", "g">>, <<".", "w", "e", "b", "p">> >>

\* meta.get('title')
Title == <<"T">>

VolumeTag == <<" ", "-", " ", "V", "o", "l", "u", "m", "e", " ">>

\* f'{title} - Volume {vid:03} [reCBZ].epub'
EpubFileName(vid) ==
    Title \o VolumeTag \o Pad(vid, 3)
          \o <<" ", "[", "r", "e", "C", "B", "Z", "]", ".", "e", "p", "u", "b">>

\* f'{title} - Volume {vid:03}.cbz'
CbzFileName(vid) == Title \o VolumeTag \o Pad(vid, 3) \o <<".", "c", "b", "z">>

\* width of the chapter number in a staged name
ChapterWidth == 4

\* fault: the staged name is the file's name
NoChapterName(ch, f) == f

\* f'{c:04}-{f}'
StagedName(ch, f) == Pad(ch, ChapterWidth) \o <<"-">> \o f

(***************************************************************************)
(* Directories: functions from entry name to entry                         *)
(***************************************************************************)

EmptyDir == [n \in {} |-> [kind |-> "file"]]

Put(d, n, x) == [k \in DOMAIN d \cup {n} |-> IF k = n THEN x ELSE d[k]]

Remove(d, n) == [k \in DOMAIN d \ {n} |-> d[k]]

File(data) == [kind |-> "file", data |-> data]

Dir(entries) == [kind |-> "dir", entries |-> entries]

\* names of the sub-directories / regular files of a directory
DirNames(d) == {n \in DOMAIN d : d[n].kind = "dir"}

FileNames(d) == {n \in DOMAIN d : d[n].kind = "file"}

\* an image file: pixel mode and the colours of the upper and lower half
Image(mode, top, bot) == [type |-> "image", mode |-> mode, top |-> top, bot |-> bot]

Gray(v) == Image("RGB", <<v, v, v>>, <<v, v, v>>)

\* a file that is not an image
Text == [type |-> "text"]

\* an artifact left in the output directory by an earlier run
OldEpub == [type |-> "epub", entries |-> <<>>, old |-> TRUE]

(***************************************************************************)
(* Inputs: command line, metadata and input tree                           *)
(***************************************************************************)

\* number of gray levels the page images of the basic tree are drawn from
Shades == 3

PagePool == {Gray(15 * k) : k \in 0..(Shades - 1)}

\* images the cover provider may return
CoverPool == {Gray(0), Gray(255)}

GrayscalePage == Image("L", <<0>>, <<0>>)

\* pages for the scoring: black, the two grays on either side of the
\* threshold against black, white, a page black above and dark gray below,
\* and two colour pages that differ by 255 in every channel of every pixel
ScorePool ==
    { Gray(0), Gray(17), Gray(18), Gray(255),
      Image("RGB", <<0, 0, 0>>, <<35, 35, 35>>),
      Image("RGB", <<255, 0, 0>>, <<0, 255, 255>>),
      Image("RGB", <<0, 255, 255>>, <<255, 0, 0>>) }

\* every image of the model
Images == PagePool \cup CoverPool \cup ScorePool \cup {Gray(255), GrayscalePage}

a_jpg == <<"a", ".", "j", "p", "g">>
b_jpg == <<"b", ".", "j", "p", "g">>
a_png == <<"a", ".", "p", "n", "g">>
n_txt == <<"n", ".", "t", "x", "t">>
sub_d == <<"x">>

Meta == File(Text)

Vol(id, chapters) == [id |-> id, chapters |-> chapters]

\* <<dir name, entries>> pairs plus meta.yml
Tree(dirs) ==
    [n \in {META_FILE} \cup {d[1] : d \in dirs} |->
        IF n = META_FILE THEN Meta
        ELSE Dir((CHOOSE d \in dirs : d[1] = n)[2])]

\* <<file name, data>> pairs
Files(fs) == [n \in {f[1] : f \in fs} |-> File((CHOOSE f \in fs : f[1] = n)[2])]

OnePage == Files({<<a_jpg, Gray(0)>>})

\* two volumes over chapters 1-2 and 3-3, page images drawn from the pool
BasicScenarios ==
    {[volumes |-> <<Vol(1, <<"1", "-", "2">>), Vol(2, <<"3", "-", "3">>)>>,
      input |-> Tree({<<<<"c", "1">>, Files({<<b_jpg, p1>>, <<a_jpg, p2>>})>>,
                      <<<<"c", "2">>, Files({<<a_jpg, p3>>})>>,
                      <<<<"c", "3">>, Files({<<a_png, Gray(255)>>})>>})]
       : p1 \in PagePool, p2 \in PagePool, p3 \in PagePool}

EdgeScenarios ==
    { \* directories "001-Intro", "010", "100" and chapter 10
      [volumes |-> <<Vol(1, <<"1", "0", "-", "1", "0">>)>>,
       input |-> Tree({<<<<"0", "0", "1", "-", "I", "n", "t", "r", "o">>, OnePage>>,
                       <<<<"0", "1", "0">>, Files({<<b_jpg, Gray(0)>>})>>,
                       <<<<"1", "0", "0">>, Files({<<a_png, Gray(0)>>})>>})],
      \* chapter numbers of four and of five digits
      [volumes |-> <<Vol(1, <<"9", "9", "9", "9", "-", "1", "0", "0", "0", "0">>)>>,
       input |-> Tree({<<<<"9", "9", "9", "9">>, OnePage>>,
                       <<<<"1", "0", "0", "0", "0">>, OnePage>>})],
      \* chapter 0
      [volumes |-> <<Vol(1, <<"0", "-", "1">>)>>,
       input |-> Tree({<<<<"c", "0">>, OnePage>>, <<<<"c", "1">>, OnePage>>})],
      \* no directory for chapter 2
      [volumes |-> <<Vol(1, <<"1", "-", "2">>), Vol(2, <<"1", "-", "1">>)>>,
       input |-> Tree({<<<<"c", "1">>, OnePage>>})],
      \* chapter 2 holds a sub-directory but no regular file
      [volumes |-> <<Vol(1, <<"1", "-", "2">>), Vol(2, <<"1", "-", "1">>)>>,
       input |-> Tree({<<<<"c", "1">>, OnePage>>,
                       <<<<"c", "2">>, [n \in {sub_d} |-> Dir(EmptyDir)]>>})],
      \* a text file, a grayscale page and a sub-directory among the pages
      [volumes |-> <<Vol(1, <<"1", "-", "1">>)>>,
       input |-> Tree({<<<<"c", "1">>,
                         [n \in {a_jpg, b_jpg, n_txt, sub_d} |->
                            IF n = a_jpg THEN File(Gray(0))
                            ELSE IF n = b_jpg THEN File(GrayscalePage)
                            ELSE IF n = n_txt THEN File(Text)
                            ELSE Dir(EmptyDir)]>>})],
      \* two identical pages and a text file
      [volumes |-> <<Vol(1, <<"1", "-", "1">>)>>,
       input |-> Tree({<<<<"c", "1">>,
                         [n \in {a_jpg, b_jpg, n_txt} |->
                            IF n = n_txt THEN File(Text) ELSE File(Gray(0))]>>})],
      \* chapters 1 and 2 both resolve to directory "12"
      [volumes |-> <<Vol(1, <<"1", "-", "2">>)>>,
       input |-> Tree({<<<<"1", "2">>, OnePage>>})],
      [volumes |-> <<Vol(1, <<"1", "-", "1">>), Vol(2, <<"1", "-", "2">>)>>,
       input |-> Tree({<<<<"1", "2">>, OnePage>>})],
      \* two volumes with the same identifier
      [volumes |-> <<Vol(1, <<"1", "-", "1">>), Vol(1, <<"2", "-", "2">>)>>,
       input |-> Tree({<<<<"c", "1">>, OnePage>>, <<<<"c", "2">>, OnePage>>})],
      \* two volumes with the same identifier, then a chapter without directory
      [volumes |-> <<Vol(1, <<"1", "-", "1">>), Vol(1, <<"1", "-", "1">>),
                     Vol(2, <<"2", "-", "2">>)>>,
       input |-> Tree({<<<<"c", "1">>, OnePage>>})],
      \* chapter ranges that are reversed, not a pair, or not numbers
      [volumes |-> <<Vol(1, <<"2", "-", "1">>), Vol(2, <<"1", "-", "1">>)>>,
       input |-> Tree({<<<<"c", "1">>, OnePage>>, <<<<"c", "2">>, OnePage>>})],
      [volumes |-> <<Vol(1, <<"1">>), Vol(2, <<"1", "-", "1">>)>>,
       input |-> Tree({<<<<"c", "1">>, OnePage>>})],
      [volumes |-> <<Vol(1, <<"1", "-", "2", "-", "3">>)>>,
       input |-> Tree({<<<<"c", "1">>, OnePage>>})],
      [volumes |-> <<Vol(1, <<"x", "-", "1">>)>>,
       input |-> Tree({<<<<"c", "1">>, OnePage>>})],
      \* no volume at all
      [volumes |-> <<>>, input |-> Tree({<<<<"c", "1">>, OnePage>>})],
      \* no meta.yml in the input directory
      [volumes |-> <<Vol(1, <<"1", "-", "1">>)>>,
       input |-> [n \in {<<"c", "1">>} |-> Dir(OnePage)]] }

Scenarios == BasicScenarios \cup EdgeScenarios

\* the artifacts an earlier run may have left in the output directory
OldOutputs(vols) ==
    {[n \in S |-> File(OldEpub)] :
        S \in SUBSET {EpubFileName(vols[i].id) : i \in 1..Len(vols)}}

CmdLines ==
    [input : {"dir"}, output : {"dir"}, force : BOOLEAN, dedup : BOOLEAN]

\* command lines rejected before any volume is read
BadCmdLines ==
    { [input |-> "none", output |-> "dir", force |-> FALSE, dedup |-> FALSE],
      [input |-> "nodir", output |-> "dir", force |-> FALSE, dedup |-> FALSE],
      [input |-> "dir", output |-> "none", force |-> FALSE, dedup |-> FALSE] }

(***************************************************************************)
(* State                                                                   *)
(***************************************************************************)

VARIABLES
    args,           \* parsed command line
    input,          \* the input directory tree
    volumes,        \* meta.get('volumes')
    outdir,         \* the output directory
    cwd,            \* the working directory (where the converter writes)
    tmp_dir,        \* the volume's temporary directory, NoTmp when absent
    chapterdirs,    \* sorted names of the input's sub-directories
    vi,             \* index in volumes of the volume v of the for loop
    chapters_range, \* [start, stop) of the current volume
    c,              \* next chapter of the walkthrough
    pc,             \* position in the script
    exitcode,       \* process exit status, Running before the exit
    err,            \* the exception that ended the run and where
    trace           \* steps taken so far, per volume

vars == <<args, input, volumes, outdir, cwd, tmp_dir, chapterdirs, vi,
          chapters_range, c, pc, exitcode, err, trace>>

Running == -1

NoError == [exc |-> "none", at |-> "none"]

NoTmp == [exists |-> FALSE, files |-> EmptyDir]

NoRange == [start |-> 0, stop |-> 0]

\* a step of volume vi, with the temporary directory's files after it
Event(step, ch, dir, files) ==
    [vol |-> vi, step |-> step, ch |-> ch, dir |-> dir, files |-> files]

\* the state in which the script starts on scenario s with command line a
\* and output directory o
Start(s, a, o) ==
    /\ input = s.input
    /\ volumes = s.volumes
    /\ outdir = o
    /\ args = a
    /\ cwd = EmptyDir
    /\ tmp_dir = NoTmp
    /\ chapterdirs = <<>>
    /\ vi = 0
    /\ chapters_range = NoRange
    /\ c = 0
    /\ pc = "start"
    /\ exitcode = Running
    /\ err = NoError
    /\ trace = <<>>

Init ==
    \E s \in Scenarios :
    \E o \in OldOutputs(s.volumes) :
    \E a \in CmdLines \cup (IF s.volumes = <<>> THEN BadCmdLines ELSE {}) :
        Start(s, a, o)

\* The process ends: sys.exit(code) or an uncaught exception.  The
\* TemporaryDirectory finalizer removes a temporary directory still there.
Terminate(code, why) ==
    /\ pc' = "exit"
    /\ exitcode' = code
    /\ err' = [exc |-> why, at |-> pc]
    /\ tmp_dir' = NoTmp

\* die(msg)
Die == Terminate(1, "die")

\* an exception nothing catches
Raise(exc) == Terminate(1, exc)

(***************************************************************************)
(* Start-up (lines 110-132)                                                *)
(***************************************************************************)

Startup ==
    /\ pc = "start"
    /\ IF \/ args.input \in {"none", "nodir"}
          \/ args.output = "none"
          \/ META_FILE \notin FileNames(input)
       THEN /\ Die
            /\ UNCHANGED <<chapterdirs, vi>>
       ELSE /\ \E l \in Listings(DirNames(input)) : chapterdirs' = Sort(l)
            /\ vi' = 1
            /\ pc' = "check"
            /\ UNCHANGED <<exitcode, err, tmp_dir>>
    /\ UNCHANGED <<args, input, volumes, outdir, cwd, chapters_range, c, trace>>

(***************************************************************************)
(* Existing artifact check (lines 134-144)                                 *)
(***************************************************************************)

\* fault: the artifact is removed whatever the force option
RemoveAlways(out, name, force) == Remove(out, name)

\* if args.force: os.remove(...)
RemoveIfForced(out, name, force) == IF force THEN Remove(out, name) ELSE out

CheckExisting ==
    /\ pc = "check"
    /\ vi <= Len(volumes)
    /\ LET epubfilename == EpubFileName(volumes[vi].id) IN
       IF epubfilename \in DOMAIN outdir
       THEN \* os.stat succeeds: remove if forced, then continue
            /\ outdir' = RemoveIfForced(outdir, epubfilename, args.force)
            /\ trace' = Append(trace,
                            Event(IF args.force THEN "Removed" ELSE "Skip", 0,
                                  NoDir, EmptyDir))
            /\ vi' = vi + 1
            /\ UNCHANGED pc
       ELSE \* os.stat raises, the except clause passes
            /\ pc' = "range"
            /\ UNCHANGED <<outdir, trace, vi>>
    /\ UNCHANGED <<args, input, volumes, cwd, tmp_dir, chapterdirs,
                   chapters_range, c, exitcode, err>>

(***************************************************************************)
(* Chapter range and temporary directory (lines 146-156)                   *)
(***************************************************************************)

\* fault: the number of parts is not checked
AnyParts(chapters) == FALSE

\* len(chapters) != 2
WrongParts(chapters) == Len(chapters) # 2

ParseRange ==
    /\ pc = "range"
    /\ LET chapters == Split(volumes[vi].chapters, "-") IN
       IF WrongParts(chapters)
       THEN /\ Die
            /\ UNCHANGED <<chapters_range, c, trace>>
       ELSE IF ~(IsInt(chapters[1]) /\ IsInt(chapters[2]))
       THEN /\ Raise("ValueError")
            /\ UNCHANGED <<chapters_range, c, trace>>
       ELSE LET start == ParseInt(chapters[1])
                stop == ParseInt(chapters[2]) + 1
            IN /\ chapters_range' = [start |-> start, stop |-> stop]
               /\ c' = start
               /\ tmp_dir' = [exists |-> TRUE, files |-> EmptyDir]
               /\ trace' = Append(trace, Event("Proceed", 0, NoDir, EmptyDir))
               /\ pc' = IF start < stop THEN "chapter" ELSE "cover"
               /\ UNCHANGED <<exitcode, err>>
    /\ UNCHANGED <<args, input, volumes, outdir, cwd, chapterdirs, vi>>

(***************************************************************************)
(* Chapter walkthrough: resolve, list, copy (lines 158-182)                *)
(***************************************************************************)

\* the for loop copying chapterfiles of directory cdir into the files ws
RECURSIVE CopyChapter(_, _, _, _)
CopyChapter(ws, cdir, ch, chapterfiles) ==
    IF chapterfiles = <<>> THEN ws
    ELSE LET f == Head(chapterfiles) IN
         CopyChapter(Put(ws, StagedName(ch, f), cdir[f]), cdir, ch,
                     Tail(chapterfiles))

\* fault: the pages are moved out of the chapter directory
SourceAfterMove(cdir, chapterfiles) ==
    [n \in DOMAIN cdir \ Range(chapterfiles) |-> cdir[n]]

\* the chapter directory after shutil.copyfile of every page: as it was
SourceAfterCopy(cdir, chapterfiles) == cdir

\* fault: the loop leaves out every other chapter
SkipChapter(ch) == ch + 2

\* for c in chapters_range: the chapter after ch
NextChapter(ch) == ch + 1

\* fault: the empty listing is not detected
NeverEmpty(chapterfiles) == FALSE

\* len(chapterfiles) == 0
NoPages(chapterfiles) == Len(chapterfiles) = 0

IngestChapter ==
    /\ pc = "chapter"
    /\ LET chapterdir == ResolveChapter(c, chapterdirs) IN
       IF chapterdir = NoDir
       THEN \* os.path.join(args.input, None)
            /\ Raise("TypeError")
            /\ UNCHANGED <<c, trace, input>>
       ELSE LET cdir == input[chapterdir].entries IN
            \E l \in Listings(FileNames(cdir)) :
               LET chapterfiles == Sort(l) IN
               IF NoPages(chapterfiles)
               THEN /\ Die
                    /\ UNCHANGED <<c, trace, input>>
               ELSE /\ tmp_dir' = [tmp_dir EXCEPT
                          !.files = CopyChapter(@, cdir, c, chapterfiles)]
                    /\ input' = [input EXCEPT ![chapterdir].entries =
                                    SourceAfterCopy(@, chapterfiles)]
                    /\ trace' = Append(trace,
                                    Event("Ingest", c, chapterdir, tmp_dir'.files))
                    /\ c' = NextChapter(c)
                    /\ pc' = IF NextChapter(c) < chapters_range.stop
                             THEN "chapter" ELSE "cover"
                    /\ UNCHANGED <<exitcode, err>>
    /\ UNCHANGED <<args, volumes, outdir, cwd, chapterdirs, vi, chapters_range>>

(***************************************************************************)
(* Cover download (lines 77-98, 184-185)                                   *)
(***************************************************************************)

\* What the provider does: "ok" an image with status 200, "status" a
\* response that is not OK, and the replies on which download_cover raises:
\* a failed request, a page without list item, a page without image.
CoverReplies == {"ok", "status", "request", "noitem", "noimg"}

CoverException(reply) ==
    CASE reply = "request" -> "ConnectionError"
      [] reply = "noitem" -> "IndexError"
      [] reply = "noimg" -> "TypeError"

\* fault: the duplicate search runs whatever the option
DedupAlways(a) == TRUE

\* if (args.dedup)
DedupEnabled(a) == a.dedup

download_cover ==
    /\ pc = "cover"
    /\ \E reply \in CoverReplies :
          IF reply \in {"request", "noitem", "noimg"}
          THEN /\ Raise(CoverException(reply))
               /\ UNCHANGED trace
          ELSE /\ IF reply = "ok"
                  THEN \E img \in CoverPool :
                          tmp_dir' = [tmp_dir EXCEPT
                              !.files = Put(@, SCAN_COVER, File(img))]
                  ELSE UNCHANGED tmp_dir
               /\ trace' = Append(trace, Event("CoverFetch", 0, NoDir, tmp_dir'.files))
               /\ pc' = IF DedupEnabled(args) THEN "dedup" ELSE "package"
               /\ UNCHANGED <<exitcode, err>>
    /\ UNCHANGED <<args, input, volumes, outdir, cwd, chapterdirs, vi,
                   chapters_range, c>>

(***************************************************************************)
(* Duplicate pages (lines 35-75, 187-189)                                  *)
(***************************************************************************)

IMG_DIFF_THRESHOLD == [num |-> 7, den |-> 100]

ThumbSize == 16

MaxChannel == 255

Abs(x) == IF x < 0 THEN -x ELSE x

\* img.resize((16, 16)): a 16 x 16 grid of pixels in the image's mode
thumbnail(img) ==
    [mode |-> img.mode,
     size |-> <<ThumbSize, ThumbSize>>,
     px |-> [p \in (0..(ThumbSize - 1)) \X (0..(ThumbSize - 1)) |->
                IF p[2] < ThumbSize \div 2 THEN img.top ELSE img.bot]]

\* fault: the per-band difference keeps its sign
SignedDifference(img1, img2) ==
    [mode |-> img1.mode,
     size |-> img1.size,
     px |-> [p \in DOMAIN img1.px |->
                [b \in DOMAIN img1.px[p] |-> img1.px[p][b] - img2.px[p][b]]]]

\* ImageChops.difference: per-band absolute difference
Difference(img1, img2) ==
    [mode |-> img1.mode,
     size |-> img1.size,
     px |-> [p \in DOMAIN img1.px |->
                [b \in DOMAIN img1.px[p] |-> Abs(img1.px[p][b] - img2.px[p][b])]]]

\* three times the acc of the loop over product(range(width), range(height)):
\* column w from row h on, and the columns from w on
RECURSIVE AccColumn(_, _, _)
AccColumn(diff, w, h) ==
    IF h = diff.size[2] THEN 0
    ELSE LET px == diff.px[<<w, h>>] IN
         px[1] + px[2] + px[3] + AccColumn(diff, w, h + 1)

RECURSIVE Acc3(_, _)
Acc3(diff, w) ==
    IF w = diff.size[1] THEN 0
    ELSE AccColumn(diff, w, 0) + Acc3(diff, w + 1)

\* pixel_difference as the exact fraction num / den, or the exception raised:
\* images of different modes do not match, and r, g, b = getpixel(...) needs
\* three bands.
pixel_difference(img1, img2) ==
    IF img1.mode # img2.mode THEN [exc |-> "ValueError", num |-> 0, den |-> 1]
    ELSE IF img1.mode # "RGB" THEN [exc |-> "TypeError", num |-> 0, den |-> 1]
    ELSE LET diff == Difference(img1, img2) IN
         [exc |-> "none",
          num |-> Acc3(diff, 0),
          den |-> 3 * diff.size[1] * diff.size[2] * MaxChannel]

\* pixel_difference(sum1, sum2) for the summaries of the images of the model,
\* computed once
DiffOf ==
    [img1 \in Images, img2 \in Images |->
        pixel_difference(thumbnail(img1), thumbnail(img2))]

\* diff < IMG_DIFF_THRESHOLD
BelowThreshold(diff) ==
    diff.num * IMG_DIFF_THRESHOLD.den < IMG_DIFF_THRESHOLD.num * diff.den

\* Path(path).glob('*' + ext)
Glob(ws, ext) ==
    {n \in DOMAIN ws :
        Len(n) >= Len(ext) /\ SubSeq(n, Len(n) - Len(ext) + 1, Len(n)) = ext}

\* tuple(sorted([f1, f2]))
Key(f1, f2) == IF StrLess(f2, f1) THEN <<f2, f1>> ELSE <<f1, f2>>

\* the dictionary diffs after the loop over product(summaries, repeat=2),
\* in insertion order, from position (i, j) of the product on
RECURSIVE Diffs(_, _, _, _, _)
Diffs(ws, files, i, j, diffs) ==
    IF i > Len(files) THEN [exc |-> "none", diffs |-> diffs]
    ELSE IF j > Len(files) THEN Diffs(ws, files, i + 1, 1, diffs)
    ELSE LET key == Key(files[i], files[j]) IN
         IF files[i] = files[j] \/ \E d \in Range(diffs) : d.key = key
         THEN Diffs(ws, files, i, j + 1, diffs)
         ELSE LET diff == DiffOf[ws[files[i]].data, ws[files[j]].data]
              IN IF diff.exc # "none" THEN [exc |-> diff.exc, diffs |-> diffs]
                 ELSE Diffs(ws, files, i, j + 1,
                            Append(diffs, [key |-> key, diff |-> diff]))

\* os.remove(k) for the names of key, in order
RemoveKey(ws, key) ==
    IF key[1] \notin DOMAIN ws THEN [exc |-> "FileNotFoundError", files |-> ws]
    ELSE IF key[2] \notin DOMAIN Remove(ws, key[1])
    THEN [exc |-> "FileNotFoundError", files |-> Remove(ws, key[1])]
    ELSE [exc |-> "none", files |-> Remove(Remove(ws, key[1]), key[2])]

\* the loop over diffs.items()
RECURSIVE RemoveDups(_, _)
RemoveDups(ws, diffs) ==
    IF diffs = <<>> THEN [exc |-> "none", files |-> ws]
    ELSE IF BelowThreshold(Head(diffs).diff)
    THEN LET r == RemoveKey(ws, Head(diffs).key) IN
         IF r.exc # "none" THEN r ELSE RemoveDups(r.files, Tail(diffs))
    ELSE RemoveDups(ws, Tail(diffs))

\* cleanup_dedups over the files ws, where files is the list the globs gave
cleanup_dedups_on(ws, files) ==
    IF \E i \in 1..Len(files) : ws[files[i]].data.type # "image"
    THEN [exc |-> "UnidentifiedImageError", files |-> ws]
    ELSE LET d == Diffs(ws, files, 1, 1, <<>>) IN
         IF d.exc # "none" THEN [exc |-> d.exc, files |-> ws]
         ELSE RemoveDups(ws, d.diffs)

cleanup_dedups ==
    /\ pc = "dedup"
    /\ \E l1 \in Listings(Glob(tmp_dir.files, SCAN_EXTENSIONS[1])),
          l2 \in Listings(Glob(tmp_dir.files, SCAN_EXTENSIONS[2])),
          l3 \in Listings(Glob(tmp_dir.files, SCAN_EXTENSIONS[3])),
          l4 \in Listings(Glob(tmp_dir.files, SCAN_EXTENSIONS[4])) :
          LET r == cleanup_dedups_on(tmp_dir.files, l1 \o l2 \o l3 \o l4) IN
          IF r.exc # "none"
          THEN /\ Raise(r.exc)
               /\ trace' = Append(trace, Event("DedupRaised", 0, NoDir, r.files))
          ELSE /\ tmp_dir' = [tmp_dir EXCEPT !.files = r.files]
               /\ trace' = Append(trace, Event("Dedup", 0, NoDir, r.files))
               /\ pc' = "package"
               /\ UNCHANGED <<exitcode, err>>
    /\ UNCHANGED <<args, input, volumes, outdir, cwd, chapterdirs, vi,
                   chapters_range, c>>

(***************************************************************************)
(* CBZ archive (lines 191-200)                                             *)
(***************************************************************************)

\* the entries zip.write adds for the list tmpfiles, in order
RECURSIVE ZipEntries(_, _)
ZipEntries(ws, tmpfiles) ==
    IF tmpfiles = <<>> THEN <<>>
    ELSE <<[name |-> Head(tmpfiles), data |-> ws[Head(tmpfiles)].data]>>
         \o ZipEntries(ws, Tail(tmpfiles))

\* fault: the listing is packed in the order the file system gave
Unsorted(l) == l

\* tmpfiles.sort()
SortTmpFiles(l) == Sort(l)

Packaging ==
    /\ pc = "package"
    /\ \E written \in BOOLEAN, l \in Listings(FileNames(tmp_dir.files)) :
          LET tmpfiles == SortTmpFiles(l)
              cbzfilename == CbzFileName(volumes[vi].id)
              cbz == [type |-> "zip", entries |-> ZipEntries(tmp_dir.files, tmpfiles)]
          IN IF written
             THEN /\ tmp_dir' = [tmp_dir EXCEPT !.files = Put(@, cbzfilename, File(cbz))]
                  /\ trace' = Append(trace, Event("Packaging", 0, NoDir, tmp_dir'.files))
                  /\ pc' = "convert"
                  /\ UNCHANGED <<exitcode, err>>
             ELSE \* the archive cannot be written
                  /\ Raise("OSError")
                  /\ UNCHANGED trace
    /\ UNCHANGED <<args, input, volumes, outdir, cwd, chapterdirs, vi,
                   chapters_range, c>>

(***************************************************************************)
(* Conversion, relocation, clean-up (lines 202-210)                        *)
(***************************************************************************)

\* os.system(recbz ...): the converter writes the ePub into the working
\* directory, or fails; the script does not look at its status.
Converting ==
    /\ pc = "convert"
    /\ \E converted \in BOOLEAN :
          LET cbz == tmp_dir.files[CbzFileName(volumes[vi].id)].data
              epub == [type |-> "epub", entries |-> cbz.entries, old |-> FALSE]
          IN cwd' = IF converted
                    THEN Put(cwd, EpubFileName(volumes[vi].id), File(epub))
                    ELSE cwd
    /\ trace' = Append(trace, Event("Converting", 0, NoDir, tmp_dir.files))
    /\ pc' = "move"
    /\ UNCHANGED <<args, input, volumes, outdir, tmp_dir, chapterdirs, vi,
                   chapters_range, c, exitcode, err>>

\* shutil.move(epubfilename, args.output)
Relocating ==
    /\ pc = "move"
    /\ LET epubfilename == EpubFileName(volumes[vi].id) IN
       IF epubfilename \notin DOMAIN cwd
       THEN /\ Raise("FileNotFoundError")
            /\ UNCHANGED <<outdir, cwd, trace>>
       ELSE IF epubfilename \in DOMAIN outdir
       THEN /\ Raise("shutil.Error")
            /\ UNCHANGED <<outdir, cwd, trace>>
       ELSE /\ outdir' = Put(outdir, epubfilename, cwd[epubfilename])
            /\ cwd' = Remove(cwd, epubfilename)
            /\ trace' = Append(trace, Event("Relocating", 0, NoDir, tmp_dir.files))
            /\ pc' = "rmtree"
            /\ UNCHANGED <<exitcode, err, tmp_dir>>
    /\ UNCHANGED <<args, input, volumes, chapterdirs, vi, chapters_range, c>>

\* fault: the temporary directory is left in place
KeepTmp(tmp) == tmp

\* shutil.rmtree(tmp_dir.name)
Rmtree(tmp) == NoTmp

\* shutil.rmtree(tmp_dir.name), then the next volume
RemoveTmp ==
    /\ pc = "rmtree"
    /\ tmp_dir' = Rmtree(tmp_dir)
    /\ trace' = Append(trace, Event("Done", 0, NoDir, EmptyDir))
    /\ vi' = vi + 1
    /\ pc' = "check"
    /\ UNCHANGED <<args, input, volumes, outdir, cwd, chapterdirs,
                   chapters_range, c, exitcode, err>>

(***************************************************************************)
(* End of the run (line 212)                                               *)
(***************************************************************************)

Exit ==
    /\ pc = "check"
    /\ vi > Len(volumes)
    /\ Terminate(0, "none")
    /\ UNCHANGED <<args, input, volumes, outdir, cwd, chapterdirs, vi,
                   chapters_range, c, trace>>

Next ==
    \/ Startup
    \/ CheckExisting
    \/ ParseRange
    \/ IngestChapter
    \/ download_cover
    \/ cleanup_dedups
    \/ Packaging
    \/ Converting
    \/ Relocating
    \/ RemoveTmp
    \/ Exit

Spec == Init /\ [][Next]_vars

(***************************************************************************)
(* Chapter resolution over many directory sets                             *)
(***************************************************************************)

\* number of chapter directories in the input
MaxDirs == 3

DirPool ==
    { <<"1">>, <<"2">>, <<"0", "1">>, <<"1", "0">>, <<"1", "2">>, <<"2", "1">>,
      <<"c", "1">>, <<"1", "c">>, <<"0", "1", "0">>, <<"1", "0", "0">>,
      <<"0", "0", "1", "-", "I", "n", "t", "r", "o">> }

ResolveChapters == {1, 2, 10, 12, 21}

\* one volume of the single chapter ch over the directories ds
ResolveScenario(ch, ds) ==
    [volumes |-> <<Vol(1, Str(ch) \o <<"-">> \o Str(ch))>>,
     input |-> Tree({<<d, OnePage>> : d \in ds})]

PlainCmdLine == [input |-> "dir", output |-> "dir", force |-> FALSE, dedup |-> FALSE]

InitResolve ==
    \E ch \in ResolveChapters :
    \E ds \in {S \in SUBSET DirPool : Cardinality(S) \in 1..MaxDirs} :
        Start(ResolveScenario(ch, ds), PlainCmdLine, EmptyDir)

NextResolve ==
    \/ Startup
    \/ CheckExisting
    \/ ParseRange
    \/ IngestChapter

SpecResolve == InitResolve /\ [][NextResolve]_vars

(***************************************************************************)
(* Staging and packaging over many chapter numbers and file names          *)
(***************************************************************************)

\* number of chapters of the volume
Span == 2

\* number of pages of a chapter
MaxFiles == 2

FirstChapters == {0, 1, 9, 99, 999, 9999}

FilePool ==
    { a_jpg, b_jpg, <<"a">>, <<"-", "a", ".", "j", "p", "g">>,
      <<"0", ".", "j", "p", "g">>, <<" ", "a", ".", "p", "n", "g">> }

\* one volume of chapters first .. first + Span - 1, every chapter in the
\* directory named by its number and holding the files fs
StagingScenario(first, fs) ==
    [volumes |-> <<Vol(1, Str(first) \o <<"-">> \o Str(first + Span - 1))>>,
     input |-> Tree({<<Str(ch), Files({<<f, Gray(0)>> : f \in fs})>> :
                        ch \in first..(first + Span - 1)})]

InitStaging ==
    \E first \in FirstChapters :
    \E fs \in {S \in SUBSET FilePool : Cardinality(S) \in 1..MaxFiles} :
        Start(StagingScenario(first, fs), PlainCmdLine, EmptyDir)

NextStaging ==
    \/ Startup
    \/ CheckExisting
    \/ ParseRange
    \/ IngestChapter
    \/ download_cover
    \/ Packaging

SpecStaging == InitStaging /\ [][NextStaging]_vars

(***************************************************************************)
(* Duplicate search over many pairs of pages                               *)
(***************************************************************************)

\* one volume of chapter 1 whose directory holds the pages p1 and p2
ScoreScenario(p1, p2) ==
    [volumes |-> <<Vol(1, <<"1", "-", "1">>)>>,
     input |-> Tree({<<<<"c", "1">>, Files({<<a_jpg, p1>>, <<b_jpg, p2>>})>>})]

DedupCmdLine == [input |-> "dir", output |-> "dir", force |-> FALSE, dedup |-> TRUE]

InitScore ==
    \E p1 \in ScorePool, p2 \in ScorePool :
        Start(ScoreScenario(p1, p2), DedupCmdLine, EmptyDir)

NextScore ==
    \/ Startup
    \/ CheckExisting
    \/ ParseRange
    \/ IngestChapter
    \/ download_cover
    \/ cleanup_dedups

SpecScore == InitScore /\ [][NextScore]_vars

(***************************************************************************)
(* Properties                                                              *)
(***************************************************************************)

\* the output artifact of the v-th volume
Artifact(v) == EpubFileName(volumes[v].id)

Steps == DOMAIN trace

\* the steps the script took for the v-th volume
StepsOf(v) == {trace[k].step : k \in {j \in Steps : trace[j].vol = v}}

\* the temporary directory's files before step k
FilesBefore(k) == IF k = 1 THEN EmptyDir ELSE trace[k - 1].files

Restrict(d, S) == [n \in S |-> d[n]]

\* C1: a volume whose existing artifact was removed because of the force
\* option is then processed in the same run: once the loop is past it, it
\* has been relocated.
C1_ForcedVolumeRegenerated ==
    \A k \in Steps :
        (trace[k].step = "Removed" /\ vi > trace[k].vol)
            => "Relocating" \in StepsOf(trace[k].vol)

\* the image files cleanup_dedups looks at
ImageNames(files) ==
    UNION {Glob(files, SCAN_EXTENSIONS[i]) : i \in DOMAIN SCAN_EXTENSIONS}

AllRGB(files) ==
    \A n \in ImageNames(files) :
        files[n].data.type = "image" /\ files[n].data.mode = "RGB"

\* the files that belong to at least one pair scoring below the threshold
InDuplicatePair(files) ==
    {n \in ImageNames(files) :
        \E m \in ImageNames(files) \ {n} :
            BelowThreshold(DiffOf[files[n].data, files[m].data])}

\* C2: over a workspace of RGB images cleanup_dedups completes normally and
\* leaves exactly the files that belong to no pair scoring below 0.07.
C2_RemovalSet ==
    \A k \in Steps :
        (trace[k].step \in {"Dedup", "DedupRaised"} /\ AllRGB(FilesBefore(k)))
            => /\ trace[k].step = "Dedup"
               /\ trace[k].files =
                     Restrict(FilesBefore(k),
                              DOMAIN FilesBefore(k) \ InDuplicatePair(FilesBefore(k)))

\* C3: a volume whose artifact exists is, without the force option, passed
\* over in one step that touches no directory; no other step is ever taken
\* for it; without force no existing artifact is changed or removed; and a
\* run that skipped every volume exits with code 0.
C3_SkipIsNoOp ==
    /\ [][(/\ pc = "check"
           /\ vi <= Len(volumes)
           /\ ~args.force
           /\ EpubFileName(volumes[vi].id) \in DOMAIN outdir)
             => (/\ pc' = "check"
                 /\ vi' = vi + 1
                 /\ UNCHANGED <<outdir, cwd, tmp_dir>>)]_vars
    /\ [](\A k \in Steps : trace[k].step = "Skip" => StepsOf(trace[k].vol) = {"Skip"})
    /\ [][~args.force =>
             \A n \in DOMAIN outdir : n \in DOMAIN outdir' /\ outdir'[n] = outdir[n]]_vars
    /\ []((/\ pc = "exit"
           /\ vi > Len(volumes)
           /\ \A k \in Steps : trace[k].step = "Skip")
             => exitcode = 0)

\* every volume of a run with two volumes was skipped and the run is over
C3_AllSkipped ==
    /\ pc = "exit"
    /\ exitcode = 0
    /\ Len(volumes) = 2
    /\ Len(trace) = 2
    /\ \A k \in Steps : trace[k].step = "Skip"
    /\ \A v \in 1..2 : outdir[Artifact(v)] = File(OldEpub)

PackagingSteps == {k \in Steps : trace[k].step = "Packaging"}

IngestSteps(v) == {k \in Steps : trace[k].step = "Ingest" /\ trace[k].vol = v}

\* the entries of the archive written by step k
Archive(k) == trace[k].files[CbzFileName(volumes[trace[k].vol].id)].data.entries

\* the <<chapter, original file name>> pairs staged for the v-th volume
StagedPairs(v) ==
    UNION {{<<trace[j].ch, f>> : f \in FileNames(input[trace[j].dir].entries)} :
              j \in IngestSteps(v)}

PairBefore(p, q) == p[1] < q[1] \/ (p[1] = q[1] /\ StrLess(p[2], q[2]))

\* the archive of step k lists every staged page, in chapter order and,
\* within a chapter, in the order of the original file names
PagesInOrder(k) ==
    LET arch == Archive(k)
        pairs == StagedPairs(trace[k].vol)
    IN /\ \A p \in pairs :
             \E i \in DOMAIN arch : arch[i].name = StagedName(p[1], p[2])
       /\ \A i, j \in DOMAIN arch : \A p, q \in pairs :
             (/\ arch[i].name = StagedName(p[1], p[2])
              /\ arch[j].name = StagedName(q[1], q[2])
              /\ PairBefore(p, q)) => i < j

\* C4 (as claimed): for every range of chapter numbers the sorted staged
\* names list the pages by chapter and then by original file name.
C4_SortIsChapterOrder == \A k \in PackagingSteps : PagesInOrder(k)

\* C4 (amended): the same for ranges whose chapter numbers have at most four
\* digits.
C4_SortIsChapterOrderUpTo4Digits ==
    \A k \in PackagingSteps :
        (\A p \in StagedPairs(trace[k].vol) : Len(Str(p[1])) <= ChapterWidth)
            => PagesInOrder(k)

\* an archive of chapters 999 and 1000 with two pages each
C4_TwoChaptersPacked ==
    \E k \in PackagingSteps :
        /\ {p[1] : p \in StagedPairs(trace[k].vol)} = {999, 1000}
        /\ Cardinality(StagedPairs(trace[k].vol)) = 4
        /\ PagesInOrder(k)

\* the directories whose name contains the decimal string of chapter ch
Candidates(ch) == {d \in DirNames(input) : Contains(Str(ch), d)}

\* dir is the candidate nearest to the decimal string of ch, and the
\* lexicographically first of the nearest ones
NearestFirst(ch, dir) ==
    /\ dir \in Candidates(ch)
    /\ \A d \in Candidates(ch) \ {dir} :
          \/ Distance(Str(ch), dir) < Distance(Str(ch), d)
          \/ Distance(Str(ch), dir) = Distance(Str(ch), d) /\ StrLess(dir, d)

\* C5: when some directory name contains the chapter's decimal string,
\* resolution yields the candidate of minimum Levenshtein distance, the
\* lexicographically first one among equals, whatever the listing order.
C5_ResolvesNearestFirst ==
    /\ \A k \in Steps :
          trace[k].step = "Ingest" => NearestFirst(trace[k].ch, trace[k].dir)
    /\ (pc = "exit" /\ err.at = "chapter" /\ err.exc = "TypeError")
          => Candidates(c) = {}

\* a chapter was resolved among several candidates at the minimum distance
C5_TieResolved ==
    \E k \in Steps :
        /\ trace[k].step = "Ingest"
        /\ \E d \in Candidates(trace[k].ch) \ {trace[k].dir} :
              Distance(Str(trace[k].ch), d) = Distance(Str(trace[k].ch), trace[k].dir)
        /\ \E d \in Candidates(trace[k].ch) :
              Distance(Str(trace[k].ch), d) > Distance(Str(trace[k].ch), trace[k].dir)

\* C6: a failing cover fetch never ends the run.
C6_CoverFailureNotFatal == ~(pc = "exit" /\ err.at = "cover")

LaterWork == {"Packaging", "Converting", "Relocating"}

\* C7: when no directory name contains the chapter's decimal string, the
\* step ends the run with an error and stages nothing; nothing is packaged,
\* converted or relocated for this or a later volume, and an ended run takes
\* no further step.
C7_ResolutionFailureAborts ==
    /\ [][(pc = "chapter" /\ Candidates(c) = {})
             => (/\ pc' = "exit"
                 /\ exitcode' = 1
                 /\ trace' = trace
                 /\ UNCHANGED <<outdir, cwd>>)]_vars
    /\ [][pc # "exit"]_vars
    /\ []((pc = "exit" /\ err.at = "chapter" /\ err.exc = "TypeError")
             => /\ \A k \in Steps :
                      /\ trace[k].vol >= vi => trace[k].step \notin LaterWork
                      /\ ~(/\ trace[k].vol = vi
                           /\ trace[k].step = "Ingest"
                           /\ trace[k].ch = c)
                /\ Artifact(vi) \notin DOMAIN outdir)

\* the run ended on an unresolved chapter after staging an earlier one,
\* with a volume still to come
C7_AbortedOnMissingChapter ==
    /\ pc = "exit"
    /\ exitcode = 1
    /\ err = [exc |-> "TypeError", at |-> "chapter"]
    /\ Candidates(c) = {}
    /\ IngestSteps(vi) # {}
    /\ vi < Len(volumes)

\* C8: when the directory resolved for a chapter holds no regular file the
\* run ends with exit code 1; the volume was not packaged and neither its
\* archive nor its artifact is in the output directory.
C8_EmptyChapterAborts ==
    /\ [][(/\ pc = "chapter"
           /\ Candidates(c) # {}
           /\ \A d \in Candidates(c) :
                 NearestFirst(c, d) => FileNames(input[d].entries) = {})
             => (/\ pc' = "exit"
                 /\ exitcode' = 1
                 /\ err'.exc = "die"
                 /\ UNCHANGED <<outdir, cwd>>)]_vars
    /\ []((pc = "exit" /\ err.at = "chapter" /\ err.exc = "die")
             => /\ StepsOf(vi) \cap LaterWork = {}
                /\ Artifact(vi) \notin DOMAIN outdir
                /\ CbzFileName(volumes[vi].id) \notin DOMAIN outdir)

\* the run ended on an empty chapter after staging an earlier one
C8_AbortedOnEmptyChapter ==
    /\ pc = "exit"
    /\ exitcode = 1
    /\ err = [exc |-> "die", at |-> "chapter"]
    /\ IngestSteps(vi) # {}
    /\ FileNames(input[ResolveChapter(c, chapterdirs)].entries) = {}

\* C9: the archive holds one entry per regular file that was in the
\* temporary directory when packaging began, named by the file's base name
\* with the file's content, in increasing order of name; the archive file
\* is not among its entries.
C9_ArchiveIsSortedWorkspace ==
    \A k \in PackagingSteps :
        LET before == FilesBefore(k)
            arch == Archive(k)
        IN /\ {arch[i].name : i \in DOMAIN arch} = FileNames(before)
           /\ Len(arch) = Cardinality(FileNames(before))
           /\ \A i \in DOMAIN arch : arch[i].data = before[arch[i].name].data
           /\ \A i, j \in DOMAIN arch : i < j => StrLess(arch[i].name, arch[j].name)
           /\ \A i \in DOMAIN arch :
                 arch[i].name # CbzFileName(volumes[trace[k].vol].id)
           /\ CbzFileName(volumes[trace[k].vol].id) \in DOMAIN trace[k].files

\* an archive of the cover and pages left by a duplicate removal that
\* deleted some page
C9_PackedAfterDedup ==
    \E k \in PackagingSteps :
        /\ trace[k - 1].step = "Dedup"
        /\ DOMAIN trace[k - 1].files # DOMAIN trace[k - 2].files
        /\ Len(Archive(k)) >= 2
        /\ SCAN_COVER \in DOMAIN trace[k - 1].files

\* C10: a cover present at packaging is the first entry of the archive of a
\* volume of positive chapter numbers: its name is below every other name.
C10_CoverFirst ==
    \A k \in PackagingSteps :
        (/\ SCAN_COVER \in DOMAIN FilesBefore(k)
         /\ \A p \in StagedPairs(trace[k].vol) : p[1] > 0)
            => /\ Archive(k)[1].name = SCAN_COVER
               /\ \A i \in DOMAIN Archive(k) :
                     i > 1 => StrLess(SCAN_COVER, Archive(k)[i].name)

\* an archive of the cover and the pages of chapters 9999 and 10000
C10_CoverAndPagesPacked ==
    \E k \in PackagingSteps :
        /\ Archive(k)[1].name = SCAN_COVER
        /\ {p[1] : p \in StagedPairs(trace[k].vol)} = {9999, 10000}
        /\ Len(Archive(k)) = 5

\* the run ended with an error
Failed == pc = "exit" /\ exitcode = 1

\* the next step meets a chapter range that is not a pair, a chapter
\* without candidate directory, or a chapter directory without regular file
FatalAhead ==
    \/ pc = "range" /\ Len(Split(volumes[vi].chapters, "-")) # 2
    \/ pc = "chapter" /\ Candidates(c) = {}
    \/ /\ pc = "chapter"
       /\ \E d \in Candidates(c) :
             NearestFirst(c, d) /\ FileNames(input[d].entries) = {}

\* no step was taken for a volume after the one the run failed in
NoLaterVolume == \A k \in Steps : trace[k].vol <= vi

AtWork == {"chapter", "cover", "dedup", "package", "convert", "move", "rmtree"}

\* C12: a volume that is ingested or packaged has a chapter range that
\* splits into exactly two integers with start <= end.
C12_RangeIsOrderedPair ==
    pc \in AtWork =>
        LET chapters == Split(volumes[vi].chapters, "-") IN
        /\ Len(chapters) = 2
        /\ IsInt(chapters[1])
        /\ IsInt(chapters[2])
        /\ ParseInt(chapters[1]) <= ParseInt(chapters[2])

\* what step k did: its name and, for an ingestion, the chapter number; a
\* duplicate search that raised is a duplicate search
Kind(k) ==
    <<IF trace[k].step = "DedupRaised" THEN "Dedup" ELSE trace[k].step,
      IF trace[k].step = "Ingest" THEN trace[k].ch ELSE 0>>

\* the steps of the v-th volume, in the order they were taken
RECURSIVE KindsFrom(_, _)
KindsFrom(k, v) ==
    IF k > Len(trace) THEN <<>>
    ELSE IF trace[k].vol = v THEN <<Kind(k)>> \o KindsFrom(k + 1, v)
    ELSE KindsFrom(k + 1, v)

\* the steps of a volume that is not skipped, in the order of the claim
VolumePlan(v) ==
    LET chapters == Split(volumes[v].chapters, "-")
        first == ParseInt(chapters[1])
        last == ParseInt(chapters[2])
        n == IF first <= last THEN last - first + 1 ELSE 0
    IN <<<<"Proceed", 0>>>>
       \o [i \in 1..n |-> <<"Ingest", first + i - 1>>]
       \o <<<<"CoverFetch", 0>>>>
       \o (IF args.dedup THEN <<<<"Dedup", 0>>>> ELSE <<>>)
       \o <<<<"Packaging", 0>>, <<"Converting", 0>>, <<"Relocating", 0>>,
            <<"Done", 0>>>>

IsPrefix(s, t) == Len(s) <= Len(t) /\ \A i \in DOMAIN s : s[i] = t[i]

\* the steps that end a volume: done, skipped, or removed and passed over
VolumeEnd == {"Done", "Skip", "Removed"}

RGBImages == {img \in Images : img.mode = "RGB"}

\* the sum over the three channels of the absolute differences of two pixels
ChannelSum(p, q) == Abs(p[1] - q[1]) + Abs(p[2] - q[2]) + Abs(p[3] - q[3])

\* The score of two pages by the words of the claim, as the fraction
\* ScoreNum / ScoreDen: a page fills the upper 128 pixels of its thumbnail
\* with one colour and the lower 128 with another.
ScoreNum(img1, img2) ==
    128 * ChannelSum(img1.top, img2.top) + 128 * ChannelSum(img1.bot, img2.bot)

ScoreDen == 3 * 256 * 255

\* the score is strictly below 0.07
ScoreBelow(img1, img2) == ScoreNum(img1, img2) * 100 < 7 * ScoreDen

\* the two pages differ by 255 in every channel of every pixel
Opposite(img1, img2) ==
    \A b \in 1..3 : /\ Abs(img1.top[b] - img2.top[b]) = 255
                    /\ Abs(img1.bot[b] - img2.bot[b]) = 255

IsRGB(file) == file.data.type = "image" /\ file.data.mode = "RGB"

DedupSteps == {k \in Steps : trace[k].step \in {"Dedup", "DedupRaised"}}

\* the names step k removed from the temporary directory
RemovedBy(k) == DOMAIN FilesBefore(k) \ DOMAIN trace[k].files

\* C14: for every pair of RGB thumbnails pixel_difference is the score of
\* the claim and lies in [0, 1]; identical thumbnails score 0, which is
\* below the threshold; thumbnails differing by 255 everywhere score 1,
\* which is not; a duplicate search removes a file only if it scores
\* strictly below 0.07 against another file, and a search that completes
\* removes both files of every pair scoring strictly below 0.07.
C14_DuplicateScoring ==
    /\ \A img1, img2 \in RGBImages :
          LET diff == DiffOf[img1, img2] IN
          /\ diff.exc = "none"
          /\ diff.den > 0
          /\ 0 <= diff.num
          /\ diff.num <= diff.den
          /\ diff.den = ScoreDen
          /\ diff.num = ScoreNum(img1, img2)
          /\ BelowThreshold(diff) <=> ScoreBelow(img1, img2)
          /\ img1 = img2 => (diff.num = 0 /\ BelowThreshold(diff))
          /\ Opposite(img1, img2) => (diff.num = diff.den /\ ~BelowThreshold(diff))
    /\ \A k \in DedupSteps :
          LET before == FilesBefore(k) IN
          /\ \A f \in RemovedBy(k) :
                \E g \in DOMAIN before \ {f} :
                    /\ IsRGB(before[f])
                    /\ IsRGB(before[g])
                    /\ ScoreBelow(before[f].data, before[g].data)
          /\ trace[k].step = "Dedup" =>
                \A f, g \in ImageNames(before) :
                    (/\ f # g
                     /\ IsRGB(before[f])
                     /\ IsRGB(before[g])
                     /\ ScoreBelow(before[f].data, before[g].data))
                        => {f, g} \subseteq RemovedBy(k)

\* a search over two identical pages and a cover that differs from them by
\* 255 everywhere: the pages are removed and the cover is left
C14_IdenticalRemovedOppositeKept ==
    \E k \in DedupSteps :
        LET before == FilesBefore(k)
            a == StagedName(1, a_jpg)
            b == StagedName(1, b_jpg)
        IN /\ trace[k].step = "Dedup"
           /\ DOMAIN before = {a, b, SCAN_COVER}
           /\ before[a].data = before[b].data
           /\ Opposite(before[a].data, before[SCAN_COVER].data)
           /\ RemovedBy(k) = {a, b}

\* the step just taken is the step named step
Took(step) ==
    /\ Len(trace') = Len(trace) + 1
    /\ trace'[Len(trace')].step = step

\* C15: the temporary directory of a volume is created, empty, only by the
\* step that accepted the volume's range, after the check for an existing
\* artifact found none; it exists only between that step and the end of the
\* volume; and when a volume is done the temporary directory is gone and
\* the volume's artifact is in the output directory.
C15_WorkspaceLifecycle ==
    /\ [][(tmp_dir = NoTmp /\ tmp_dir' # NoTmp) =>
             /\ pc = "range"
             /\ Took("Proceed")
             /\ Artifact(vi) \notin DOMAIN outdir
             /\ Len(Split(volumes[vi].chapters, "-")) = 2
             /\ tmp_dir' = [exists |-> TRUE, files |-> EmptyDir]]_vars
    /\ [][Took("Done") =>
             /\ tmp_dir # NoTmp
             /\ tmp_dir' = NoTmp
             /\ Artifact(vi) \in DOMAIN outdir'
             /\ CbzFileName(volumes[vi].id) \in DOMAIN tmp_dir.files]_vars
    /\ [](tmp_dir # NoTmp => pc \in AtWork)

C15_DoneAndTornDown ==
    /\ trace # <<>>
    /\ trace[Len(trace)].step = "Done"
    /\ FilesBefore(Len(trace)) # EmptyDir
    /\ tmp_dir = NoTmp
    /\ Artifact(trace[Len(trace)].vol) \in DOMAIN outdir

\* C16: no step changes the input directory; a name leaves the output
\* directory only when the check for an existing artifact removes the
\* artifact of the current volume under the force option, and the artifacts
\* that stay are not modified; a name leaves the working directory only by
\* being moved into the output directory; names leave the temporary
\* directory only in the duplicate search, in its removal, or when the
\* process ends.
C16_SourcesOnlyCopied ==
    [][/\ input' = input
       /\ \A n \in DOMAIN outdir \ DOMAIN outdir' :
             pc = "check" /\ args.force /\ n = Artifact(vi)
       /\ \A n \in DOMAIN outdir \cap DOMAIN outdir' : outdir'[n] = outdir[n]
       /\ \A n \in DOMAIN cwd \ DOMAIN cwd' :
             pc = "move" /\ n \in DOMAIN outdir' /\ outdir'[n] = cwd[n]
       /\ (DOMAIN tmp_dir.files \ DOMAIN tmp_dir'.files # {}) =>
             (pc \in {"dedup", "rmtree"} \/ pc' = "exit")]_vars

\* a run under the force and dedup options that copied pages, removed
\* duplicates, finished a volume and removed the artifact of another
C16_CopiedDedupedAndForced ==
    /\ pc = "exit"
    /\ Len(volumes) = 2
    /\ "Done" \in StepsOf(1)
    /\ "Removed" \in StepsOf(2)
    /\ \E k \in DedupSteps : RemovedBy(k) # {}

\* the name n matches the pattern '*' + ext
Matches(n, ext) ==
    /\ Len(n) >= Len(ext)
    /\ \A i \in 1..Len(ext) : n[Len(n) - Len(ext) + i] = ext[i]

\* the name n matches one of *.jpg, *.jpeg, *.png, *.webp
IsImageName(n) ==
    \/ Matches(n, <<".", "j", "p", "g">>)
    \/ Matches(n, <<".", "j", "p", "e", "g">>)
    \/ Matches(n, <<".", "p", "n", "g">>)
    \/ Matches(n, <<".", "w", "e", "b", "p">>)

\* the cover fetch of the volume of step k
CoverFetchOf(k) ==
    CHOOSE j \in Steps : trace[j].step = "CoverFetch" /\ trace[j].vol = trace[k].vol

ArchiveNames(k) == {Archive(k)[i].name : i \in DOMAIN Archive(k)}

\* C17: without the dedup option no duplicate search is made, the files
\* packaging finds are the files left by ingestion and cover fetch, and
\* the archive holds every one of them, every staged page included; with
\* the option, a duplicate search removes only files whose names match an
\* image pattern and leaves every other file as it was.
C17_DedupLeavesAlone ==
    /\ ~args.dedup =>
          /\ DedupSteps = {}
          /\ \A k \in PackagingSteps :
                LET fetched == trace[CoverFetchOf(k)].files IN
                /\ FilesBefore(k) = fetched
                /\ ArchiveNames(k) = DOMAIN fetched
                /\ \A i \in DOMAIN Archive(k) :
                      Archive(k)[i].data = fetched[Archive(k)[i].name].data
                /\ \A p \in StagedPairs(trace[k].vol) :
                      StagedName(p[1], p[2]) \in ArchiveNames(k)
    /\ args.dedup =>
          \A k \in DedupSteps :
             /\ \A f \in RemovedBy(k) : IsImageName(f)
             /\ \A f \in DOMAIN FilesBefore(k) :
                   ~IsImageName(f) =>
                      /\ f \in DOMAIN trace[k].files
                      /\ trace[k].files[f] = FilesBefore(k)[f]

\* without the option two identical pages are both packed
C17_DuplicatesPackedWithoutDedup ==
    /\ ~args.dedup
    /\ \E k \in PackagingSteps :
          LET a == StagedName(1, a_jpg)
              b == StagedName(1, b_jpg)
          IN /\ {a, b} \subseteq ArchiveNames(k)
             /\ trace[k].files[a] = trace[k].files[b]

\* with the option a search removed two identical pages and left the text
\* file staged with them
C17_TextFileSurvivesDedup ==
    /\ args.dedup
    /\ \E k \in DedupSteps :
          /\ RemovedBy(k) = {StagedName(1, a_jpg), StagedName(1, b_jpg)}
          /\ StagedName(1, n_txt) \in DOMAIN trace[k].files

\* chapter numbers and file names over which the staged name is compared
StagedChapters == {0, 1, 2, 10, 100, 1000, 9999, 10000, 10001}

StagedFiles ==
    FilePool \cup {SCAN_COVER, n_txt, <<".", "j", "p", "g">>,
                   <<"1", "-", "a", ".", "j", "p", "g">>,
                   <<"0", "0", "0", "1", "-", "a", ".", "j", "p", "g">>}

\* the staged name tells the chapter number and the file name apart, and
\* is never the name of the cover
StagedNameInjective ==
    \A c1 \in StagedChapters, c2 \in StagedChapters :
    \A f1 \in StagedFiles, f2 \in StagedFiles :
        /\ StagedName(c1, f1) = StagedName(c2, f2) => (c1 = c2 /\ f1 = f2)
        /\ StagedName(c1, f1) # SCAN_COVER

CoverFetchSteps == {k \in Steps : trace[k].step = "CoverFetch"}

\* the ingestion of chapter ch in the volume of step k
IngestOf(k, ch) ==
    CHOOSE j \in IngestSteps(trace[k].vol) : trace[j].ch = ch

\* C18: the staged name is injective over chapter number and file name and
\* is never "0000.jpg"; once the chapters of a volume are ingested and the
\* cover is fetched, the temporary directory holds, beside the cover,
\* exactly one file per pair of a chapter of this volume and a file of the
\* directory the chapter resolved to, with that file's content, and
\* nothing else.
C18_StagingNeverOverwrites ==
    /\ StagedNameInjective
    /\ \A k \in CoverFetchSteps :
          LET files == trace[k].files
              staged == DOMAIN files \ {SCAN_COVER}
              pairs == StagedPairs(trace[k].vol)
          IN /\ staged = {StagedName(p[1], p[2]) : p \in pairs}
             /\ Cardinality(staged) = Cardinality(pairs)
             /\ \A p \in pairs :
                   files[StagedName(p[1], p[2])] =
                      input[trace[IngestOf(k, p[1])].dir].entries[p[2]]
             /\ SCAN_COVER \in DOMAIN files =>
                   files[SCAN_COVER].data \in CoverPool
             /\ LET chapters == Split(volumes[trace[k].vol].chapters, "-") IN
                {p[1] : p \in pairs} =
                   ParseInt(chapters[1])..ParseInt(chapters[2])

\* chapters 1 and 2 of the second volume came from one directory and are
\* staged side by side, after a first volume was done
C18_SameDirectoryStagedTwice ==
    \E k \in CoverFetchSteps :
        /\ trace[k].vol = 2
        /\ "Done" \in StepsOf(1)
        /\ {trace[j].ch : j \in IngestSteps(2)} = {1, 2}
        /\ trace[IngestOf(k, 1)].dir = trace[IngestOf(k, 2)].dir
        /\ DOMAIN trace[k].files \ {SCAN_COVER} =
              {StagedName(1, a_jpg), StagedName(2, a_jpg)}

====
